---- MODULE Spec2Model ----
(***************************************************************************)
(* Model of hass.action_result / service_result:                           *)
(*   - extract_data_at_path            (action_result/utils.py)            *)
(*   - parse_service_yaml, dict_to_yaml (validators/yaml_validator.py)     *)
(*   - _extract_action_from_selector   (config_flow_handler/config_flow.py)*)
(*   - detect_value_type_and_suggestions (action_result/helpers.py)        *)
(*   - async_step_user, async_step_reconfigure, _validate_service_call     *)
(*                                     (config_flow_handler/config_flow.py)*)
(* Python text is a sequence of one-character strings; Python values are   *)
(* tagged records so that values of different types can be compared.       *)
(***************************************************************************)
EXTENDS Integers, Sequences, FiniteSets, TLC

VARIABLES
    data,        \* extract_data_at_path: argument `data`
    path_arg,    \* extract_data_at_path: argument `path` as passed
    path,        \* extract_data_at_path: local `path` after path.strip()
    pos,         \* extract_data_at_path: local `pos` (0-based, as in the code)
    current,     \* extract_data_at_path: local `current`
    epc,         \* extract_data_at_path: "idle" | "call" | "loop" | "done"
    ret,         \* extract_data_at_path: returned value once epc = "done"
    action_data, \* _extract_action_from_selector: argument `action_data`
    sel_ret,     \* _extract_action_from_selector: outcome once spc = "done"
    spc,         \* _extract_action_from_selector: "idle" | "call" | "done"
    arg_data,    \* dict_to_yaml: argument `data` (None when none was given)
    yaml_string, \* the YAML text at hand (dict_to_yaml's result, parse_service_yaml's argument)
    origin,      \* where yaml_string came from: "typed" | "dumped" | "wrapped" | "stored"
    parsed,      \* parse_service_yaml: returned tuple once ypc = "parsed"
    ypc,         \* "idle" | "dict" | "typed" | "dumped" | "wrapped" | "stored" | "parsed"
    value,       \* detect_value_type_and_suggestions: argument `value`
    suggestions, \* detect_value_type_and_suggestions: returned dict once cpc = "done"
    cpc,         \* detect_value_type_and_suggestions: "idle" | "call" | "done"
    flow_step,   \* config flow: the step called, "none" | "user" | "reconfigure"
    user_input,  \* config flow: argument `user_input` (None for the first display)
    services,    \* hass.services: the registered (domain, service) pairs
    entry,       \* the config entry's data (None while there is no entry)
    errors,      \* config flow: local `errors`, as the set of values under "base"
    domain,      \* config flow: local `domain`
    service_name,         \* config flow: local `service_name`
    action_selector_data, \* config flow: local `action_selector_data`
    clean_yaml,           \* config flow: local `clean_yaml`
    has_service_log,      \* the calls of hass.services.has_service made so far
    async_call_log,       \* the calls of hass.services.async_call made so far
    call_outcome,         \* how the awaited async_call ended ("none" before)
    flow_result, \* config flow: the step's result once fpc = "done"
    fpc          \* config flow: "idle" | "call" | "awaiting" | "done"

pathVars == <<data, path_arg, path, pos, current, epc, ret>>
selVars == <<action_data, sel_ret, spc>>
yamlVars == <<arg_data, yaml_string, origin, parsed, ypc>>
clsVars == <<value, suggestions, cpc>>
flowVars ==
    <<flow_step, user_input, services, entry, errors, domain, service_name,
      action_selector_data, clean_yaml, has_service_log, async_call_log, call_outcome,
      flow_result, fpc>>
vars == <<pathVars, selVars, yamlVars, clsVars, flowVars>>

(***************************************************************************)
(* Python values                                                           *)
(***************************************************************************)
PyNone == [kind |-> "none"]
PyBool(b) == [kind |-> "bool", val |-> b]
PyInt(i) == [kind |-> "int", val |-> i]
PyStr(s) == [kind |-> "str", val |-> s]
PyList(s) == [kind |-> "list", val |-> s]
PyDict(f) == [kind |-> "dict", val |-> f]
PyTuple(s) == [kind |-> "tuple", val |-> s]

EmptyMap == [k \in {} |-> PyNone]

\* isinstance(v, dict), isinstance(v, list)
IsDict(v) == v.kind = "dict"
IsList(v) == v.kind = "list"

\* dict.get(key): the value, or None when the key is absent
DictGet(d, key) == IF key \in DOMAIN d.val THEN d.val[key] ELSE PyNone

\* bool(v): Python truthiness
Truthy(v) ==
    CASE v.kind = "none" -> FALSE
      [] v.kind = "bool" -> v.val
      [] v.kind = "int" -> v.val # 0
      [] v.kind = "str" -> Len(v.val) > 0
      [] v.kind = "list" -> Len(v.val) > 0
      [] v.kind = "tuple" -> Len(v.val) > 0
      [] v.kind = "dict" -> DOMAIN v.val # {}

(***************************************************************************)
(* Python text operations on sequences of characters                       *)
(***************************************************************************)
Whitespace == {" ", "\t", "\n"}

Digits == <<"0", "1", "2", "3", "4", "5", "6", "7", "8", "9">>

IsDigit(c) == \E i \in 1..10 : Digits[i] = c

DigitVal(c) == (CHOOSE i \in 1..10 : Digits[i] = c) - 1

\* s[a:b] for 0 <= a, b <= len(s) (Python slice with 0-based bounds)
Slice(s, a, b) == IF b <= a THEN <<>> ELSE SubSeq(s, a + 1, b)

\* str.strip()
RECURSIVE LStrip(_)
LStrip(s) == IF s # <<>> /\ Head(s) \in Whitespace THEN LStrip(Tail(s)) ELSE s

RECURSIVE RStrip(_)
RStrip(s) ==
    IF s # <<>> /\ s[Len(s)] \in Whitespace THEN RStrip(SubSeq(s, 1, Len(s) - 1)) ELSE s

Strip(s) == RStrip(LStrip(s))

\* str.find(c, start): 0-based index of the first c at or after start, else -1
Find(s, c, start) ==
    LET hits == {i \in start..(Len(s) - 1) : s[i + 1] = c}
    IN IF hits = {} THEN -1 ELSE CHOOSE i \in hits : \A j \in hits : i <= j

\* str.startswith(c), str.endswith(c) for a one-character c
StartsWith(s, c) == s # <<>> /\ s[1] = c
EndsWith(s, c) == s # <<>> /\ s[Len(s)] = c

\* "c in s"
Contains(s, c) == \E i \in 1..Len(s) : s[i] = c

\* int(s): [ok |-> FALSE] stands for ValueError.  Python accepts surrounding
\* whitespace, one sign, and digits separated by single underscores.
DigitsOk(b) ==
    /\ b # <<>>
    /\ \A i \in 1..Len(b) : IsDigit(b[i]) \/ b[i] = "_"
    /\ b[1] # "_" /\ b[Len(b)] # "_"
    /\ \A i \in 1..(Len(b) - 1) : ~(b[i] = "_" /\ b[i + 1] = "_")

RECURSIVE DigitsValue(_)
DigitsValue(b) ==
    IF b = <<>> THEN 0
    ELSE IF b[Len(b)] = "_" THEN DigitsValue(SubSeq(b, 1, Len(b) - 1))
    ELSE 10 * DigitsValue(SubSeq(b, 1, Len(b) - 1)) + DigitVal(b[Len(b)])

PyIntParse(s) ==
    LET t == Strip(s)
        signed == t # <<>> /\ t[1] \in {"-", "+"}
        body == IF signed THEN Tail(t) ELSE t
    IN IF DigitsOk(body)
       THEN [ok |-> TRUE,
             val |-> IF signed /\ t[1] = "-" THEN 0 - DigitsValue(body) ELSE DigitsValue(body)]
       ELSE [ok |-> FALSE, val |-> 0]

\* list[index] for -len <= index < len
ListItem(l, index) == IF index >= 0 THEN l.val[index + 1] ELSE l.val[Len(l.val) + index + 1]

\* (variant: the lower bound is taken strictly)
IndexInRange_Strict(l, index) == 0 - Len(l.val) < index /\ index < Len(l.val)

\* -len(current) <= index < len(current)
IndexInRange(l, index) == 0 - Len(l.val) <= index /\ index < Len(l.val)

(***************************************************************************)
(* extract_data_at_path (utils.py 9-112), one action per loop iteration    *)
(***************************************************************************)
\* re.match(r"([^.\[\]]+)", path[pos:]): the maximal run without . [ ]
RECURSIVE TokenAt(_, _)
TokenAt(p, i) ==
    IF i < Len(p) /\ p[i + 1] \notin {".", "[", "]"}
    THEN <<p[i + 1]>> \o TokenAt(p, i + 1)
    ELSE <<>>

\* bracket_content is a quoted string: ["key"] or ['key']
IsQuoted(bc) ==
    \/ StartsWith(bc, "\"") /\ EndsWith(bc, "\"")
    \/ StartsWith(bc, "'") /\ EndsWith(bc, "'")

\* bracket_content[1:-1]
Unquote(bc) == Slice(bc, 1, Len(bc) - 1)

\* One step's outcome: [stop |-> TRUE] is `return None`, else the new current.
Continue(v) == [stop |-> FALSE, cur |-> v]
ReturnNone == [stop |-> TRUE, cur |-> PyNone]

\* utils.py 66-77 and 92-101: index a list by a parsed integer
IndexStep(cur, text) ==
    LET n == PyIntParse(text)
    IN IF ~n.ok THEN ReturnNone
       ELSE IF ~IsList(cur) THEN ReturnNone
       ELSE IF IndexInRange(cur, n.val) THEN Continue(ListItem(cur, n.val))
       ELSE ReturnNone

\* (variant: a quoted number indexes a list)
BracketStep_QuotedIndex(cur, bc) ==
    IF IsQuoted(bc)
    THEN IF IsDict(cur) THEN Continue(DictGet(cur, Unquote(bc)))
         ELSE IndexStep(cur, Unquote(bc))
    ELSE IndexStep(cur, bc)

\* utils.py 52-77: the step a bracket with this content takes
BracketStep(cur, bc) ==
    IF IsQuoted(bc)
    THEN IF IsDict(cur) THEN Continue(DictGet(cur, Unquote(bc))) ELSE ReturnNone
    ELSE IndexStep(cur, bc)

\* (variant: a token that reads as a number is always an index)
TokenStep_NumericIsIndex(cur, key) ==
    IF PyIntParse(key).ok THEN IndexStep(cur, key)
    ELSE IF IsDict(cur) THEN Continue(DictGet(cur, key))
    ELSE ReturnNone

\* utils.py 91-106: the step a bare token takes
TokenStep(cur, key) ==
    IF IsList(cur) THEN IndexStep(cur, key)
    ELSE IF IsDict(cur) THEN Continue(DictGet(cur, key))
    ELSE ReturnNone

\* (variant: an empty path is answered with None)
extract_data_at_path_enter_none ==
    /\ epc = "call"
    /\ IF path_arg = PyNone \/ Strip(path_arg.val) = <<>>
       THEN /\ epc' = "done"
            /\ ret' = PyNone
            /\ UNCHANGED <<path, pos, current>>
       ELSE /\ epc' = "loop"
            /\ current' = data
            /\ path' = Strip(path_arg.val)
            /\ pos' = 0
            /\ ret' = ret
    /\ UNCHANGED <<data, path_arg>>
    /\ UNCHANGED <<selVars, yamlVars, clsVars, flowVars>>

\* utils.py 32-37
extract_data_at_path_enter ==
    /\ epc = "call"
    /\ IF path_arg = PyNone \/ Strip(path_arg.val) = <<>>
       THEN /\ epc' = "done"
            /\ ret' = data
            /\ UNCHANGED <<path, pos, current>>
       ELSE /\ epc' = "loop"
            /\ current' = data
            /\ path' = Strip(path_arg.val)
            /\ pos' = 0
            /\ ret' = ret
    /\ UNCHANGED <<data, path_arg>>
    /\ UNCHANGED <<selVars, yamlVars, clsVars, flowVars>>

\* utils.py 41-43: skip a dot
extract_data_at_path_dot ==
    /\ epc = "loop" /\ pos < Len(path)
    /\ path[pos + 1] = "."
    /\ pos' = pos + 1
    /\ UNCHANGED <<data, path_arg, path, current, epc, ret>>
    /\ UNCHANGED <<selVars, yamlVars, clsVars, flowVars>>

\* (variant: no check for None after the step)
StepTo_NoNoneCheck(out, newpos) ==
    IF out.stop
    THEN /\ epc' = "done"
         /\ ret' = PyNone
         /\ UNCHANGED <<current, pos>>
    ELSE /\ current' = out.cur
         /\ pos' = newpos
         /\ UNCHANGED <<epc, ret>>

\* utils.py 79-81, 108-110: advance, and `if current is None: return None`
StepTo(out, newpos) ==
    IF out.stop \/ out.cur = PyNone
    THEN /\ epc' = "done"
         /\ ret' = PyNone
         /\ current' = IF out.stop THEN current ELSE out.cur
         /\ pos' = IF out.stop THEN pos ELSE newpos
    ELSE /\ current' = out.cur
         /\ pos' = newpos
         /\ UNCHANGED <<epc, ret>>

\* utils.py 46-81: a bracket step
extract_data_at_path_bracket ==
    /\ epc = "loop" /\ pos < Len(path)
    /\ path[pos + 1] = "["
    /\ LET end_bracket == Find(path, "]", pos)
       IN IF end_bracket = -1
          THEN /\ epc' = "done"
               /\ ret' = PyNone
               /\ UNCHANGED <<pos, current>>
          ELSE StepTo(BracketStep(current, Slice(path, pos + 1, end_bracket)),
                      end_bracket + 1)
    /\ UNCHANGED <<data, path_arg, path>>
    /\ UNCHANGED <<selVars, yamlVars, clsVars, flowVars>>

\* utils.py 84-110: a bare token step
extract_data_at_path_token ==
    /\ epc = "loop" /\ pos < Len(path)
    /\ path[pos + 1] \notin {".", "["}
    /\ TokenAt(path, pos) # <<>>
    /\ StepTo(TokenStep(current, TokenAt(path, pos)), pos + Len(TokenAt(path, pos)))
    /\ UNCHANGED <<data, path_arg, path>>
    /\ UNCHANGED <<selVars, yamlVars, clsVars, flowVars>>

\* utils.py 39, 86-87, 112: the loop ends (end of path, or `break` on a
\* character no token can start with) and current is returned
extract_data_at_path_return ==
    /\ epc = "loop"
    /\ \/ pos >= Len(path)
       \/ /\ pos < Len(path)
          /\ path[pos + 1] \notin {".", "["}
          /\ TokenAt(path, pos) = <<>>
    /\ epc' = "done"
    /\ ret' = current
    /\ UNCHANGED <<data, path_arg, path, pos, current>>
    /\ UNCHANGED <<selVars, yamlVars, clsVars, flowVars>>

NextPath ==
    \/ extract_data_at_path_enter
    \/ extract_data_at_path_dot
    \/ extract_data_at_path_bracket
    \/ extract_data_at_path_token
    \/ extract_data_at_path_return

(***************************************************************************)
(* _extract_action_from_selector (config_flow.py 81-102)                   *)
(***************************************************************************)
K_action == <<"a", "c", "t", "i", "o", "n">>
K_service == <<"s", "e", "r", "v", "i", "c", "e">>
K_data == <<"d", "a", "t", "a">>
K_entry_id == <<"e", "n", "t", "r", "y", "_", "i", "d">>
K_level == <<"l", "e", "v", "e", "l">>
K_x == <<"x">>
K_0 == <<"0">>

PyRaise(exc) == [kind |-> "raise", val |-> exc]

\* action.split(".", 1) for an action that contains "."
SplitFirst(a) ==
    LET i == Find(a, ".", 0)
    IN PyTuple(<<PyStr(Slice(a, 0, i)), PyStr(Slice(a, i + 1, Len(a)))>>)

\* (variant: the split is made at the last ".")
SplitLast(a) ==
    LET i == CHOOSE j \in 0..(Len(a) - 1) :
                 a[j + 1] = "." /\ \A k \in (j + 1)..(Len(a) - 1) : a[k + 1] # "."
    IN PyTuple(<<PyStr(Slice(a, 0, i)), PyStr(Slice(a, i + 1, Len(a)))>>)

\* (variant of the whole function, splitting at the last ".")
extract_action_from_selector_rsplit(ad) ==
    IF ~Truthy(ad) THEN PyNone
    ELSE LET action == IF K_action \in DOMAIN ad.val THEN ad.val[K_action] ELSE PyStr(<<>>)
         IN IF ~Truthy(action) THEN PyNone
            ELSE IF action.kind \in {"int", "bool"} THEN PyRaise("TypeError")
            ELSE IF ~Contains(action.val, ".") THEN PyNone
            ELSE SplitLast(action.val)

\* config_flow.py 94-102; `"." not in action` raises TypeError on a number
extract_action_from_selector(ad) ==
    IF ~Truthy(ad) THEN PyNone
    ELSE LET action == IF K_action \in DOMAIN ad.val THEN ad.val[K_action] ELSE PyStr(<<>>)
         IN IF ~Truthy(action) THEN PyNone
            ELSE IF action.kind \in {"int", "bool"} THEN PyRaise("TypeError")
            ELSE IF ~Contains(action.val, ".") THEN PyNone
            ELSE SplitFirst(action.val)

\* one call of _extract_action_from_selector
extract_action_from_selector_call ==
    /\ spc = "call"
    /\ sel_ret' = extract_action_from_selector(action_data)
    /\ spc' = "done"
    /\ UNCHANGED action_data
    /\ UNCHANGED <<pathVars, yamlVars, clsVars, flowVars>>

NextSel == extract_action_from_selector_call

(***************************************************************************)
(* YAML text.  A text is a sequence of lines; a line has an indentation    *)
(* level, a tag and up to two scalar tokens:                               *)
(*    blank            (spaces only)                                       *)
(*    comment          # ...                                               *)
(*    entry            key: value      (value absent: "key:")              *)
(*    item             - value                                             *)
(*    scalar           value                                               *)
(* A token is written plain, single-quoted, as the empty flow collections  *)
(* [] and {}, or as a flow sequence that is never closed ("[1, 2").        *)
(***************************************************************************)
Tok(style, text) == [style |-> style, text |-> text]
NoTok == Tok("absent", <<>>)
Plain(text) == Tok("plain", text)
Single(text) == Tok("single", text)

Line(ind, tag, key, val) == [ind |-> ind, tag |-> tag, key |-> key, val |-> val]
Entry(ind, key, val) == Line(ind, "entry", key, val)
Item(ind, val) == Line(ind, "item", NoTok, val)
ScalarLine(ind, val) == Line(ind, "scalar", NoTok, val)
BlankLine(ind) == Line(ind, "blank", NoTok, NoTok)
CommentLine == Line(0, "comment", NoTok, NoTok)

\* not yaml_string or not yaml_string.strip()
IsBlankText(text) == \A i \in 1..Len(text) : text[i].tag = "blank"

(***************************************************************************)
(* yaml.safe_load (called at yaml_validator.py 67): the resolver           *)
(***************************************************************************)
T_true == <<"t", "r", "u", "e">>
T_false == <<"f", "a", "l", "s", "e">>
T_null == <<"n", "u", "l", "l">>
T_yes == <<"y", "e", "s">>
T_no == <<"n", "o">>
T_on == <<"o", "n">>
T_off == <<"o", "f", "f">>

\* the plain texts YAML 1.1 resolves to a boolean or to null (lower case)
TrueTexts == {T_true, T_yes, T_on}
FalseTexts == {T_false, T_no, T_off}
NullTexts == {T_null, <<"~">>, <<>>}

\* the plain texts resolved as a decimal integer: [-+]?(0|[1-9][0-9_]*)
IsYamlInt(t) ==
    LET signed == t # <<>> /\ t[1] \in {"-", "+"}
        body == IF signed THEN Tail(t) ELSE t
    IN /\ body # <<>>
       /\ IsDigit(body[1])
       /\ body = <<"0">> \/ body[1] # "0"
       /\ \A i \in 1..Len(body) : IsDigit(body[i]) \/ body[i] = "_"

YamlIntValue(t) ==
    LET signed == t[1] \in {"-", "+"}
        body == IF signed THEN Tail(t) ELSE t
    IN IF t[1] = "-" THEN 0 - DigitsValue(body) ELSE DigitsValue(body)

ResolvePlain(t) ==
    IF t \in NullTexts THEN PyNone
    ELSE IF t \in TrueTexts THEN PyBool(TRUE)
    ELSE IF t \in FalseTexts THEN PyBool(FALSE)
    ELSE IF IsYamlInt(t) THEN PyInt(YamlIntValue(t))
    ELSE PyStr(t)

Loaded(v) == [ok |-> TRUE, val |-> v]
YAMLError == [ok |-> FALSE, val |-> PyNone]

ResolveTok(tok) ==
    CASE tok.style = "plain" -> Loaded(ResolvePlain(tok.text))
      [] tok.style = "single" -> Loaded(PyStr(tok.text))
      [] tok.style = "empty_seq" -> Loaded(PyList(<<>>))
      [] tok.style = "empty_map" -> Loaded(PyDict(EmptyMap))
      [] tok.style = "absent" -> Loaded(PyNone)
      [] tok.style = "flow_open" -> YAMLError

\* d[k] = v on a mapping (a repeated key keeps the last value)
Put(f, k, v) == [x \in DOMAIN f \cup {k} |-> IF x = k THEN v ELSE f[x]]

(***************************************************************************)
(* yaml.safe_load: block structure by indentation                          *)
(***************************************************************************)
Node(v, next) == [ok |-> TRUE, val |-> v, next |-> next]
NoNode == [ok |-> FALSE, val |-> PyNone, next |-> 0]

RECURSIVE ParseNode(_, _)
RECURSIVE ParseMapping(_, _, _, _)
RECURSIVE ParseSeq(_, _, _, _)

\* items "- value" at indentation c, starting at line i
ParseSeq(ls, i, c, acc) ==
    IF i <= Len(ls) /\ ls[i].ind = c /\ ls[i].tag = "item"
    THEN LET v == ResolveTok(ls[i].val)
         IN IF ~v.ok THEN NoNode ELSE ParseSeq(ls, i + 1, c, Append(acc, v.val))
    ELSE Node(PyList(acc), i)

\* entries "key: value" at indentation c, starting at line i
ParseMapping(ls, i, c, acc) ==
    IF i > Len(ls) \/ ls[i].ind < c THEN Node(PyDict(acc), i)
    ELSE IF ls[i].ind > c \/ ls[i].tag # "entry" THEN NoNode
    ELSE LET k == ResolveTok(ls[i].key)
             inline == ResolveTok(ls[i].val)
             nested == IF i + 1 <= Len(ls) /\ ls[i + 1].ind > c
                       THEN ParseNode(ls, i + 1)
                       ELSE IF i + 1 <= Len(ls) /\ ls[i + 1].ind = c /\ ls[i + 1].tag = "item"
                       THEN ParseSeq(ls, i + 1, c, <<>>)
                       ELSE Node(PyNone, i + 1)
         IN IF ~k.ok \/ k.val.kind # "str" THEN NoNode
            ELSE IF ls[i].val.style # "absent"
            THEN IF ~inline.ok THEN NoNode
                 ELSE ParseMapping(ls, i + 1, c, Put(acc, k.val.val, inline.val))
            ELSE IF ~nested.ok THEN NoNode
                 ELSE ParseMapping(ls, nested.next, c, Put(acc, k.val.val, nested.val))

\* the node that starts at line i, at that line's indentation
ParseNode(ls, i) ==
    CASE ls[i].tag = "entry" -> ParseMapping(ls, i, ls[i].ind, EmptyMap)
      [] ls[i].tag = "item" -> ParseSeq(ls, i, ls[i].ind, <<>>)
      [] ls[i].tag = "scalar" ->
            LET v == ResolveTok(ls[i].val)
            IN IF v.ok THEN Node(v.val, i + 1) ELSE NoNode
      [] OTHER -> NoNode

IsContent(l) == l.tag \notin {"blank", "comment"}

\* yaml.safe_load(text): a value, or YAMLError
yaml_safe_load(text) ==
    LET ls == SelectSeq(text, IsContent)
    IN IF ls = <<>> THEN Loaded(PyNone)
       ELSE LET r == ParseNode(ls, 1)
            IN IF r.ok /\ r.next = Len(ls) + 1 THEN Loaded(r.val) ELSE YAMLError

(***************************************************************************)
(* yaml.dump(data, default_flow_style=False, allow_unicode=True)           *)
(* (called at yaml_validator.py 118)                                       *)
(***************************************************************************)
\* the characters a plain scalar may not begin with
Indicators == {"-", "?", ":", ",", "[", "]", "{", "}", "#", "&", "*", "!", "|", ">",
               "'", "\"", "%", "@", " "}

\* a text is written plain only when it reads back as that same text
NeedsQuotes(t) ==
    \/ ResolvePlain(t).kind # "str"
    \/ t[1] \in Indicators
    \/ t[Len(t)] \in {" ", ":"}
    \/ \E i \in 1..(Len(t) - 1) : (t[i] = ":" /\ t[i + 1] = " ") \/ (t[i] = " " /\ t[i + 1] = "#")

\* the decimal digits of a natural number
RECURSIVE IntToken_digits(_)
IntToken_digits(n) ==
    IF n < 10 THEN <<Digits[n + 1]>> ELSE IntToken_digits(n \div 10) \o <<Digits[(n % 10) + 1]>>

IntToken(i) == IF i < 0 THEN <<"-">> \o IntToken_digits(0 - i) ELSE IntToken_digits(i)

RepresentScalar(v) ==
    CASE v.kind = "none" -> Plain(T_null)
      [] v.kind = "bool" -> Plain(IF v.val THEN T_true ELSE T_false)
      [] v.kind = "int" -> Plain(IntToken(v.val))
      [] v.kind = "str" -> IF NeedsQuotes(v.val) THEN Single(v.val) ELSE Plain(v.val)
      [] v.kind = "list" /\ v.val = <<>> -> Tok("empty_seq", <<>>)
      [] v.kind = "dict" /\ DOMAIN v.val = {} -> Tok("empty_map", <<>>)

\* the keys of the model in the order yaml.dump sorts them (sort_keys=True)
KeyOrder == <<K_0, K_action, K_data, K_entry_id, K_level, K_service, K_x>>

SortedKeys(f) == SelectSeq(KeyOrder, LAMBDA k : k \in DOMAIN f)

IsCollection(v) ==
    \/ v.kind = "list" /\ v.val # <<>>
    \/ v.kind = "dict" /\ DOMAIN v.val # {}

RECURSIVE DumpEntries(_, _, _)
DumpEntries(f, keys, ind) ==
    IF keys = <<>> THEN <<>>
    ELSE LET k == Head(keys)
             v == f[k]
             here ==
                IF ~IsCollection(v) THEN <<Entry(ind, RepresentScalar(PyStr(k)), RepresentScalar(v))>>
                ELSE IF v.kind = "list"
                THEN <<Entry(ind, RepresentScalar(PyStr(k)), NoTok)>>
                     \o [j \in 1..Len(v.val) |-> Item(ind, RepresentScalar(v.val[j]))]
                ELSE <<Entry(ind, RepresentScalar(PyStr(k)), NoTok)>>
                     \o DumpEntries(v.val, SortedKeys(v.val), ind + 1)
         IN here \o DumpEntries(f, Tail(keys), ind)

yaml_dump(d) == DumpEntries(d.val, SortedKeys(d.val), 0)

\* str.strip() on a text: blank lines at either end go, and so does the
\* indentation of the first line left
RECURSIVE DropBlankHead(_)
DropBlankHead(t) == IF t # <<>> /\ t[1].tag = "blank" THEN DropBlankHead(Tail(t)) ELSE t

RECURSIVE DropBlankTail(_)
DropBlankTail(t) ==
    IF t # <<>> /\ t[Len(t)].tag = "blank" THEN DropBlankTail(SubSeq(t, 1, Len(t) - 1)) ELSE t

StripText(t) ==
    LET u == DropBlankTail(DropBlankHead(t))
    IN IF u = <<>> THEN u ELSE <<[u[1] EXCEPT !.ind = 0]>> \o Tail(u)

(***************************************************************************)
(* dict_to_yaml (yaml_validator.py 106-118)                                *)
(***************************************************************************)
dict_to_yaml(d) == IF ~Truthy(d) THEN <<>> ELSE StripText(yaml_dump(d))

(***************************************************************************)
(* parse_service_yaml (yaml_validator.py 35-103)                           *)
(***************************************************************************)
ErrorKey(name) == [kind |-> "error_key", val |-> name]

Returned(cleaned_data, action, entry_id, error_key) ==
    [cleaned_data |-> cleaned_data, action |-> action, entry_id |-> entry_id,
     error_key |-> error_key]

\* dict without one key: what is left after cleaned_data.pop(key)
Without(f, k) == [x \in DOMAIN f \ {k} |-> f[x]]

\* (variant: the value is read with get and the key stays)
PopEntryId_Get(d) ==
    IF K_entry_id \in DOMAIN d.val
    THEN [cleaned |-> d, entry_id |-> d.val[K_entry_id]]
    ELSE [cleaned |-> d, entry_id |-> PyNone]

\* yaml_validator.py 90-92 and 100-101: (cleaned_data, entry_id) after the pop
PopEntryId(d) ==
    IF K_entry_id \in DOMAIN d.val
    THEN [cleaned |-> PyDict(Without(d.val, K_entry_id)), entry_id |-> d.val[K_entry_id]]
    ELSE [cleaned |-> d, entry_id |-> PyNone]

\* (variant: "service" is preferred over "action")
ActionOf_ServiceFirst(p) ==
    IF Truthy(DictGet(p, K_service)) THEN DictGet(p, K_service) ELSE DictGet(p, K_action)

\* yaml_validator.py 84: parsed.get("action") or parsed.get("service")
ActionOf(p) ==
    IF Truthy(DictGet(p, K_action)) THEN DictGet(p, K_action) ELSE DictGet(p, K_service)

\* (variant: parsed.get("data") or {})
DataSectionOf_OrEmpty(p) ==
    IF Truthy(DictGet(p, K_data)) THEN DictGet(p, K_data) ELSE PyDict(EmptyMap)

\* yaml_validator.py 87: parsed.get("data", {})
DataSectionOf(p) == IF K_data \in DOMAIN p.val THEN p.val[K_data] ELSE PyDict(EmptyMap)

\* (variant: a "data" key alone also makes a full document)
IsFullDocument_OrData(p) ==
    K_action \in DOMAIN p.val \/ K_service \in DOMAIN p.val \/ K_data \in DOMAIN p.val

\* yaml_validator.py 82: "action" in parsed or "service" in parsed
IsFullDocument(p) == K_action \in DOMAIN p.val \/ K_service \in DOMAIN p.val

parse_service_yaml(text) ==
    IF text = <<>> \/ IsBlankText(text)
    THEN Returned(PyDict(EmptyMap), PyNone, PyNone, PyNone)
    ELSE LET loaded == yaml_safe_load(text)
             p == loaded.val
         IN IF ~loaded.ok THEN Returned(PyNone, PyNone, PyNone, ErrorKey("yaml_parse_error"))
            ELSE IF p = PyNone THEN Returned(PyDict(EmptyMap), PyNone, PyNone, PyNone)
            ELSE IF ~IsDict(p) THEN Returned(PyNone, PyNone, PyNone, ErrorKey("yaml_not_dict"))
            ELSE IF IsFullDocument(p)
            THEN IF IsDict(DataSectionOf(p))
                 THEN Returned(PopEntryId(DataSectionOf(p)).cleaned, ActionOf(p),
                               PopEntryId(DataSectionOf(p)).entry_id, PyNone)
                 ELSE Returned(PyNone, ActionOf(p), PyNone, ErrorKey("yaml_not_dict"))
            ELSE Returned(PopEntryId(p).cleaned, PyNone, PopEntryId(p).entry_id, PyNone)

(***************************************************************************)
(* The operations on YAML text                                             *)
(***************************************************************************)
NotParsed == Returned(PyNone, PyNone, PyNone, PyNone)

\* dict_to_yaml(arg_data)
dict_to_yaml_call ==
    /\ ypc = "dict"
    /\ yaml_string' = dict_to_yaml(arg_data)
    /\ origin' = "dumped"
    /\ ypc' = "dumped"
    /\ UNCHANGED <<arg_data, parsed>>
    /\ UNCHANGED <<pathVars, selVars, clsVars, flowVars>>

\* "data:\n" + indented(text): the serialized arguments put back under data
DataWrapper(text) ==
    <<Entry(0, Plain(K_data), NoTok)>>
    \o [i \in 1..Len(text) |-> [text[i] EXCEPT !.ind = @ + 1]]

wrap_under_data ==
    /\ ypc = "dumped"
    /\ yaml_string' = DataWrapper(yaml_string)
    /\ origin' = "wrapped"
    /\ ypc' = "wrapped"
    /\ UNCHANGED <<arg_data, parsed>>
    /\ UNCHANGED <<pathVars, selVars, clsVars, flowVars>>

\* config_flow.py 224-226, 289-294: the cleaned data of an accepted text is
\* stored as dict_to_yaml(cleaned_data or {}), the text the reconfigure step
\* hands to parse_service_yaml again
store_clean_yaml ==
    /\ ypc = "parsed" /\ origin # "stored"
    /\ parsed.error_key = PyNone
    /\ arg_data' = (IF Truthy(parsed.cleaned_data) THEN parsed.cleaned_data
                    ELSE PyDict(EmptyMap))
    /\ yaml_string' = dict_to_yaml(arg_data')
    /\ origin' = "stored"
    /\ ypc' = "stored"
    /\ UNCHANGED parsed
    /\ UNCHANGED <<pathVars, selVars, clsVars, flowVars>>

\* parse_service_yaml(yaml_string)
parse_service_yaml_call ==
    /\ ypc \in {"typed", "dumped", "wrapped", "stored"}
    /\ parsed' = parse_service_yaml(yaml_string)
    /\ ypc' = "parsed"
    /\ UNCHANGED <<arg_data, yaml_string, origin>>
    /\ UNCHANGED <<pathVars, selVars, clsVars, flowVars>>

NextYaml ==
    \/ dict_to_yaml_call
    \/ wrap_under_data
    \/ store_clean_yaml
    \/ parse_service_yaml_call

(***************************************************************************)
(* detect_value_type_and_suggestions (helpers.py 169-206)                  *)
(***************************************************************************)
PyFloat(t) == [kind |-> "float", val |-> t]

\* the value types of custom_components/action_result/const.py
VALUE_TYPE_STRING == "string"
VALUE_TYPE_NUMBER == "number"
VALUE_TYPE_BOOLEAN == "boolean"
VALUE_TYPE_TIMESTAMP == "timestamp"

\* the dict the function returns
Suggestions(value_type, unit_of_measurement, device_class) ==
    [value_type |-> value_type, unit_of_measurement |-> unit_of_measurement,
     device_class |-> device_class]

NoSuggestions == Suggestions("", "", "")

\* isinstance(v, bool)
IsBoolInstance(v) == v.kind = "bool"

\* isinstance(v, int | float): bool is a subclass of int
IsNumberInstance(v) == v.kind \in {"bool", "int", "float"}

\* character classes of the pattern: \d, and a set of literal characters
DigitClass == {Digits[i] : i \in 1..10}

\* r"^\d{4}-\d{2}-\d{2}[T ]\d{2}:\d{2}:\d{2}" as a sequence of character classes
iso_pattern ==
    <<DigitClass, DigitClass, DigitClass, DigitClass, {"-"}, DigitClass, DigitClass, {"-"},
      DigitClass, DigitClass, {"T", " "}, DigitClass, DigitClass, {":"},
      DigitClass, DigitClass, {":"}, DigitClass, DigitClass>>

\* re.match(pattern, text) for a pattern of single-character classes:
\* anchored at the start, anything may follow
RECURSIVE ReMatch(_, _)
ReMatch(pattern, text) ==
    IF pattern = <<>> THEN TRUE
    ELSE IF text = <<>> THEN FALSE
    ELSE Head(text) \in Head(pattern) /\ ReMatch(Tail(pattern), Tail(text))

\* (variant: the numeric test is made before the boolean test)
detect_value_type_and_suggestions_NumberFirst(v) ==
    IF v = PyNone THEN Suggestions(VALUE_TYPE_STRING, "", "")
    ELSE IF IsNumberInstance(v) THEN Suggestions(VALUE_TYPE_NUMBER, "", "")
    ELSE IF IsBoolInstance(v) THEN Suggestions(VALUE_TYPE_BOOLEAN, "", "")
    ELSE IF v.kind = "str" /\ ReMatch(iso_pattern, v.val)
         THEN Suggestions(VALUE_TYPE_TIMESTAMP, "", "timestamp")
    ELSE Suggestions(VALUE_TYPE_STRING, "", "")

\* helpers.py 179-206
detect_value_type_and_suggestions(v) ==
    IF v = PyNone THEN Suggestions(VALUE_TYPE_STRING, "", "")
    ELSE IF IsBoolInstance(v) THEN Suggestions(VALUE_TYPE_BOOLEAN, "", "")
    ELSE IF IsNumberInstance(v) THEN Suggestions(VALUE_TYPE_NUMBER, "", "")
    ELSE IF v.kind = "str"
         THEN IF ReMatch(iso_pattern, v.val)
              THEN Suggestions(VALUE_TYPE_TIMESTAMP, "", "timestamp")
              ELSE Suggestions(VALUE_TYPE_STRING, "", "")
    ELSE Suggestions(VALUE_TYPE_STRING, "", "")

\* one call of detect_value_type_and_suggestions
detect_value_type_and_suggestions_call ==
    /\ cpc = "call"
    /\ suggestions' = detect_value_type_and_suggestions(value)
    /\ cpc' = "done"
    /\ UNCHANGED value
    /\ UNCHANGED <<pathVars, selVars, yamlVars, flowVars>>

NextClassify ==
    \/ detect_value_type_and_suggestions_call

(***************************************************************************)
(* The config flow: async_step_user, async_step_reconfigure and            *)
(* _validate_service_call (config_flow.py 104-355).  A step runs up to the *)
(* awaited service call in one action and from the call's end in the next. *)
(***************************************************************************)
\* the form's fields, which are also the entry's data (const.py 14-17):
\* CONF_NAME, CONF_SERVICE_ACTION, CONF_SERVICE_DATA_YAML; None is an absent key
UserInput(name, service_action, service_data_yaml) ==
    [name |-> name, service_action |-> service_action,
     service_data_yaml |-> service_data_yaml]

\* what a step returns
NoResult == [kind |-> "none", step_id |-> "none", errors |-> {}, data |-> PyNone]

\* self.async_show_form(step_id=..., data_schema=...(defaults), errors=errors)
async_show_form(step_id, defaults, errs) ==
    [kind |-> "form", step_id |-> step_id, errors |-> errs, data |-> defaults]

\* self.async_create_entry(...), self.async_update_reload_and_abort(entry, ...)
async_create_entry(entry_data) ==
    [kind |-> "create_entry", step_id |-> "user", errors |-> {}, data |-> entry_data]
async_update_reload_and_abort(entry_data) ==
    [kind |-> "update_entry", step_id |-> "reconfigure", errors |-> {}, data |-> entry_data]

\* an exception that leaves the step
Raised(exc) == [kind |-> "raise", step_id |-> "none", errors |-> {}, data |-> PyRaise(exc)]

\* what lines 201-217 (299-312) leave in domain, service_name and
\* action_selector_data; updated tells that updated_input got the action
Decided(exc, dom, svc, sel, updated) ==
    [exc |-> exc, domain |-> dom, service_name |-> svc, selector |-> sel,
     updated |-> updated]

\* `"." in yaml_action` for a value that is not text
HasDotMember(v) ==
    CASE v.kind = "list" -> \E i \in 1..Len(v.val) : v.val[i] = PyStr(<<".">>)
      [] v.kind = "dict" -> <<".">> \in DOMAIN v.val
      [] OTHER -> FALSE

\* (variant: the dropdown selection is preferred over the YAML action)
DetermineAction_DropdownFirst(yaml_action, selector) ==
    IF Truthy(selector)
    THEN LET extracted == extract_action_from_selector(selector)
         IN IF extracted.kind = "raise" THEN Decided(extracted.val, PyNone, PyNone, selector, FALSE)
            ELSE IF Truthy(extracted)
            THEN Decided("", extracted.val[1], extracted.val[2], selector, FALSE)
            ELSE Decided("", PyNone, PyNone, selector, FALSE)
    ELSE IF Truthy(yaml_action) /\ yaml_action.kind = "str" /\ Contains(yaml_action.val, ".")
    THEN Decided("", SplitFirst(yaml_action.val).val[1], SplitFirst(yaml_action.val).val[2],
                 PyDict(K_action :> yaml_action), TRUE)
    ELSE Decided("", PyNone, PyNone, selector, FALSE)

\* config_flow.py 201-217 and 299-312: YAML action first, then the dropdown
DetermineAction(yaml_action, selector) ==
    IF Truthy(yaml_action)
    THEN CASE yaml_action.kind \in {"int", "bool"} ->
                Decided("TypeError", PyNone, PyNone, selector, FALSE)
           [] yaml_action.kind = "str" ->
                IF Contains(yaml_action.val, ".")
                THEN Decided("", SplitFirst(yaml_action.val).val[1],
                             SplitFirst(yaml_action.val).val[2],
                             PyDict(K_action :> yaml_action), TRUE)
                ELSE Decided("", PyNone, PyNone, selector, FALSE)
           [] OTHER ->
                IF HasDotMember(yaml_action)
                THEN Decided("AttributeError", PyNone, PyNone, selector, FALSE)
                ELSE Decided("", PyNone, PyNone, selector, FALSE)
    ELSE IF Truthy(selector)
    THEN LET extracted == extract_action_from_selector(selector)
         IN IF extracted.kind = "raise" THEN Decided(extracted.val, PyNone, PyNone, selector, FALSE)
            ELSE IF Truthy(extracted)
            THEN Decided("", extracted.val[1], extracted.val[2], selector, FALSE)
            ELSE Decided("", PyNone, PyNone, selector, FALSE)
    ELSE Decided("", PyNone, PyNone, selector, FALSE)

\* self.hass.services.has_service(domain, service_name)
has_service(dom, svc) == <<dom.val, svc.val>> \in services

\* config_flow.py 228-234: the data the validating call is made with
ValidationData(text) ==
    IF text = <<>> THEN PyDict(EmptyMap)
    ELSE LET loaded == yaml_safe_load(text)
         IN IF ~loaded.ok THEN PyDict(EmptyMap)
            ELSE IF loaded.val = PyNone THEN PyDict(EmptyMap)
            ELSE loaded.val

\* {**user_input, **updated_input} when only the action was put in updated_input
MergedAction(d) ==
    IF d.updated THEN [user_input EXCEPT !.service_action = d.selector] ELSE user_input

\* the defaults the form is shown with: get_user_schema(user_input),
\* get_reconfigure_schema(entry.data)
FormDefaults(step_id, merged) == IF step_id = "user" THEN merged ELSE entry

\* how the awaited hass.services.async_call can end
CallOutcomes == {"response", "no_response", "ServiceNotFound", "HomeAssistantError", "Exception"}

\* config_flow.py 104-166: (success, error_key); "" stands for no key
validate_service_call(outcome) ==
    CASE outcome = "ServiceNotFound" -> [success |-> FALSE, error_key |-> "service_not_found"]
      [] outcome = "HomeAssistantError" -> [success |-> FALSE, error_key |-> "service_call_failed"]
      [] outcome = "Exception" -> [success |-> FALSE, error_key |-> "service_call_failed"]
      [] OTHER -> [success |-> TRUE, error_key |-> ""]

\* the locals and the outcome of a step that has run up to the awaited
\* call (pc "awaiting") or to its result (pc "done")
Locals(pc, result, errs, d, yaml, checked, called) ==
    [pc |-> pc, result |-> result, errors |-> errs, domain |-> d.domain,
     service_name |-> d.service_name, selector |-> d.selector, clean_yaml |-> yaml,
     checked |-> checked, called |-> called]

\* the step shows the form again with errors["base"] = key
Rejected(step_id, key, merged, d, checked) ==
    Locals("done", async_show_form(step_id, FormDefaults(step_id, merged), {key}), {key},
           d, clean_yaml, checked, <<>>)

\* user_input.get(CONF_SERVICE_DATA_YAML, ""), user_input.get(CONF_SERVICE_ACTION)
SubmittedYaml == IF user_input = PyNone THEN <<>> ELSE user_input.service_data_yaml
SubmittedAction == IF user_input = PyNone THEN PyNone ELSE user_input.service_action

\* config_flow.py 187-237 (284-331): a step from its call to the awaited
\* service call, or to its result when it does not get that far; r is what
\* parse_service_yaml returned and d what lines 201-217 decided
StepBegin(step_id, r, d) ==
    IF user_input = PyNone
    THEN Locals("done", async_show_form(step_id, FormDefaults(step_id, PyNone), {}), errors,
                Decided("", domain, service_name, action_selector_data, FALSE),
                clean_yaml, <<>>, <<>>)
    ELSE IF r.error_key # PyNone
    THEN Rejected(step_id, r.error_key.val, user_input,
                  Decided("", domain, service_name, SubmittedAction, FALSE), <<>>)
    ELSE IF d.exc # ""
    THEN Locals("done", Raised(d.exc), errors, d, clean_yaml, <<>>, <<>>)
    ELSE IF ~Truthy(d.domain) \/ ~Truthy(d.service_name)
    THEN Rejected(step_id, "no_service_selected", MergedAction(d), d, <<>>)
    ELSE IF ~has_service(d.domain, d.service_name)
    THEN Rejected(step_id, "service_not_found", MergedAction(d), d,
                  <<<<d.domain, d.service_name>>>>)
    ELSE Locals("awaiting", flow_result, errors, d,
                dict_to_yaml(IF Truthy(r.cleaned_data) THEN r.cleaned_data
                             ELSE PyDict(EmptyMap)),
                <<<<d.domain, d.service_name>>>>,
                <<[domain |-> d.domain, service |-> d.service_name,
                   service_data |->
                       ValidationData(dict_to_yaml(IF Truthy(r.cleaned_data)
                                                   THEN r.cleaned_data
                                                   ELSE PyDict(EmptyMap))),
                   return_response |-> TRUE]>>)

\* the step's locals and result take the values of l
Becomes(l) ==
    /\ fpc' = l.pc
    /\ flow_result' = l.result
    /\ errors' = l.errors
    /\ domain' = l.domain
    /\ service_name' = l.service_name
    /\ action_selector_data' = l.selector
    /\ clean_yaml' = l.clean_yaml
    /\ has_service_log' = has_service_log \o l.checked
    /\ async_call_log' = async_call_log \o l.called

\* user_input.get(CONF_NAME, f"{domain}.{service_name}")
EntryName ==
    IF user_input.name # PyNone THEN user_input.name
    ELSE PyStr(domain.val \o <<".">> \o service_name.val)

\* config_flow.py 236-266 (330-355): the step from the end of the awaited call
StepResume(step_id, outcome) ==
    LET v == validate_service_call(outcome)
        errs == IF ~v.success /\ v.error_key # "" THEN {v.error_key} ELSE errors
        entry_data == UserInput(EntryName, action_selector_data, clean_yaml)
    IN /\ call_outcome' = outcome
       /\ errors' = errs
       /\ fpc' = "done"
       /\ IF errs = {}
          THEN /\ entry' = entry_data
               /\ flow_result' = IF step_id = "user" THEN async_create_entry(entry_data)
                                 ELSE async_update_reload_and_abort(entry_data)
          ELSE /\ entry' = entry
               /\ flow_result' =
                    async_show_form(step_id,
                                    FormDefaults(step_id,
                                                 [user_input EXCEPT
                                                     !.service_action = action_selector_data,
                                                     !.service_data_yaml = clean_yaml]),
                                    errs)

\* async_step_user, up to the awaited call
async_step_user ==
    /\ fpc = "call" /\ flow_step = "user"
    /\ \E r \in {parse_service_yaml(SubmittedYaml)} :
         \E d \in {DetermineAction(r.action, SubmittedAction)} :
           \E l \in {StepBegin("user", r, d)} : Becomes(l)
    /\ UNCHANGED <<flow_step, user_input, services, entry, call_outcome>>
    /\ UNCHANGED <<pathVars, selVars, yamlVars, clsVars>>

\* async_step_user, from the end of the awaited call
async_step_user_resume ==
    /\ fpc = "awaiting" /\ flow_step = "user"
    /\ \E outcome \in CallOutcomes : StepResume("user", outcome)
    /\ UNCHANGED <<flow_step, user_input, services, domain, service_name,
                   action_selector_data, clean_yaml, has_service_log, async_call_log>>
    /\ UNCHANGED <<pathVars, selVars, yamlVars, clsVars>>

\* async_step_reconfigure, up to the awaited call
async_step_reconfigure ==
    /\ fpc = "call" /\ flow_step = "reconfigure"
    /\ \E r \in {parse_service_yaml(SubmittedYaml)} :
         \E d \in {DetermineAction(r.action, SubmittedAction)} :
           \E l \in {StepBegin("reconfigure", r, d)} : Becomes(l)
    /\ UNCHANGED <<flow_step, user_input, services, entry, call_outcome>>
    /\ UNCHANGED <<pathVars, selVars, yamlVars, clsVars>>

\* async_step_reconfigure, from the end of the awaited call
async_step_reconfigure_resume ==
    /\ fpc = "awaiting" /\ flow_step = "reconfigure"
    /\ \E outcome \in CallOutcomes : StepResume("reconfigure", outcome)
    /\ UNCHANGED <<flow_step, user_input, services, domain, service_name,
                   action_selector_data, clean_yaml, has_service_log, async_call_log>>
    /\ UNCHANGED <<pathVars, selVars, yamlVars, clsVars>>

NextFlow ==
    \/ async_step_user
    \/ async_step_user_resume
    \/ async_step_reconfigure
    \/ async_step_reconfigure_resume

(***************************************************************************)
(* Inputs of extract_data_at_path                                          *)
(***************************************************************************)
MaxSegs == 2    \* a path is the concatenation of at most MaxSegs segments
MaxIdx == 3     \* integer indices -MaxIdx..MaxIdx are written in paths

\* the decimal text of a small integer, as a user writes it in a path
IntText(i) == IF i < 0 THEN <<"-", Digits[1 - i]>> ELSE <<Digits[i + 1]>>

InBrackets(s) == <<"[">> \o s \o <<"]">>
DQuoted(s) == <<"\"">> \o s \o <<"\"">>
SQuoted(s) == <<"'">> \o s \o <<"'">>

KeyTexts == {<<"0">>, <<"a">>, <<"b">>, <<"a", ".", "b">>}

IndexRange == (0 - MaxIdx)..MaxIdx

BareKeys == {<<"0">>, <<"a">>, <<"b">>}

Segments ==
    {<<".">>, <<" ">>, <<"[">>, <<"]">>, <<"a">>, <<"b">>}
    \cup {<<".">> \o k : k \in BareKeys}
    \cup {IntText(i) : i \in IndexRange}
    \cup {InBrackets(IntText(i)) : i \in IndexRange}
    \cup {InBrackets(DQuoted(k)) : k \in KeyTexts}
    \cup {InBrackets(SQuoted(k)) : k \in {<<"0">>, <<"a", ".", "b">>}}
    \cup {InBrackets(<<"\"">>), InBrackets(<<"a">>)}

RECURSIVE PathsOf(_)
PathsOf(n) ==
    IF n = 0 THEN {<<>>}
    ELSE LET shorter == PathsOf(n - 1)
         IN shorter \cup {p \o s : p \in shorter, s \in Segments}

Paths == PathsOf(MaxSegs)

Inner == PyDict((<<"a">> :> PyInt(21)) @@ (<<"0">> :> PyStr(<<"x">>)))
List1 == PyList(<<PyInt(10)>>)
List2 == PyList(<<PyInt(10), Inner>>)
List3 == PyList(<<PyInt(10), PyNone, PyInt(12)>>)
Outer ==
    PyDict((<<"0">> :> PyInt(7)) @@ (<<"a">> :> PyNone) @@ (<<"b">> :> List2)
           @@ (<<"a", ".", "b">> :> Inner) @@ (<<>> :> PyBool(TRUE)))

Roots == {PyNone, PyInt(5), PyStr(<<"a">>), PyList(<<>>), List1, List2, List3, Inner, Outer}

InitPath ==
    /\ flow_step = "none" /\ user_input = PyNone /\ services = {} /\ entry = PyNone
    /\ errors = {} /\ domain = PyNone /\ service_name = PyNone
    /\ action_selector_data = PyNone /\ clean_yaml = PyNone
    /\ has_service_log = <<>> /\ async_call_log = <<>> /\ call_outcome = "none"
    /\ flow_result = NoResult /\ fpc = "idle"
    /\ value = PyNone /\ suggestions = NoSuggestions /\ cpc = "idle"
    /\ action_data = PyNone /\ sel_ret = PyNone /\ spc = "idle"
    /\ arg_data = PyNone /\ yaml_string = <<>> /\ origin = "none"
    /\ parsed = NotParsed /\ ypc = "idle"
    /\ data \in Roots
    /\ path_arg \in {PyNone} \cup {PyStr(p) : p \in Paths}
    /\ path = <<>> /\ pos = 0 /\ current = PyNone /\ epc = "call" /\ ret = PyNone

(***************************************************************************)
(* Inputs of _extract_action_from_selector                                 *)
(***************************************************************************)
MaxIdLen == 4   \* action identifiers have at most MaxIdLen characters

RECURSIVE TextsOver(_, _)
TextsOver(alphabet, n) ==
    IF n = 0 THEN {<<>>}
    ELSE LET shorter == TextsOver(alphabet, n - 1)
         IN shorter \cup {Append(t, c) : t \in shorter, c \in alphabet}

Identifiers == TextsOver({"d", "s", "."}, MaxIdLen)

SelectorInputs ==
    {PyNone, PyDict(EmptyMap), PyDict(K_data :> PyDict(EmptyMap)),
     PyDict(K_action :> PyNone), PyDict(K_action :> PyInt(5))}
    \cup {PyDict(K_action :> PyStr(a)) : a \in Identifiers}
    \cup {PyDict((K_action :> PyStr(a)) @@ (K_data :> PyDict(EmptyMap))) :
             a \in {<<"d", ".", "s">>, <<"d">>}}

InitSel ==
    /\ flow_step = "none" /\ user_input = PyNone /\ services = {} /\ entry = PyNone
    /\ errors = {} /\ domain = PyNone /\ service_name = PyNone
    /\ action_selector_data = PyNone /\ clean_yaml = PyNone
    /\ has_service_log = <<>> /\ async_call_log = <<>> /\ call_outcome = "none"
    /\ flow_result = NoResult /\ fpc = "idle"
    /\ value = PyNone /\ suggestions = NoSuggestions /\ cpc = "idle"
    /\ data = PyNone /\ path_arg = PyNone /\ path = <<>> /\ pos = 0
    /\ current = PyNone /\ epc = "idle" /\ ret = PyNone
    /\ arg_data = PyNone /\ yaml_string = <<>> /\ origin = "none"
    /\ parsed = NotParsed /\ ypc = "idle"
    /\ action_data \in SelectorInputs /\ sel_ret = PyNone /\ spc = "call"

(***************************************************************************)
(* Inputs of parse_service_yaml: texts as a user types or pastes them      *)
(***************************************************************************)
A_dom_svc == <<"d", ".", "s">>
A_other == <<"e", ".", "t">>
V_id == <<"X", "1">>

ActionGroups ==
    {<<>>,
     <<Entry(0, Plain(K_action), Plain(A_dom_svc))>>,
     <<Entry(0, Plain(K_action), NoTok)>>,
     <<Entry(0, Plain(K_action), Single(<<>>))>>,
     <<Entry(0, Plain(K_action), Plain(<<"5">>))>>,
     <<Entry(0, Plain(K_action), Plain(<<"0">>))>>,
     <<Entry(0, Plain(K_action), Plain(T_false))>>,
     <<Entry(0, Plain(K_action), Plain(T_true))>>,
     <<Entry(0, Plain(K_action), Tok("empty_seq", <<>>))>>,
     <<Entry(0, Plain(K_action), NoTok), Item(0, Plain(A_dom_svc))>>,
     <<Entry(0, Plain(K_action), NoTok), Entry(1, Plain(K_x), Plain(<<"1">>))>>}

ServiceGroups ==
    {<<>>,
     <<Entry(0, Plain(K_service), Plain(A_other))>>,
     <<Entry(0, Plain(K_service), Plain(<<"7">>))>>}

ExtraGroups ==
    {<<>>,
     <<Entry(0, Plain(K_level), Plain(T_true))>>,
     <<Entry(0, Plain(K_entry_id), Plain(V_id))>>,
     <<Entry(0, Plain(K_entry_id), Plain(<<"4", "2">>)), Entry(0, Plain(K_x), Single(T_no))>>}

NestedGroups ==
    {<<Entry(1, Plain(K_level), Plain(T_true))>>,
     <<Entry(1, Plain(K_entry_id), Plain(V_id))>>,
     <<Entry(1, Plain(K_entry_id), Plain(V_id)), Entry(1, Plain(K_level), Plain(T_true))>>,
     <<Entry(1, Plain(K_entry_id), Plain(<<"4", "2">>)), Entry(1, Plain(K_x), Single(T_true))>>,
     <<Entry(1, Plain(K_entry_id), NoTok), Entry(1, Plain(K_x), Plain(<<"1">>))>>,
     <<Entry(1, Plain(K_entry_id), NoTok), Item(1, Plain(<<"1">>))>>,
     <<Entry(1, Plain(K_level), NoTok), Entry(2, Plain(K_entry_id), Plain(V_id))>>,
     <<Entry(1, Plain(K_service), Plain(A_other))>>}

DataGroups ==
    {<<>>,
     <<Entry(0, Plain(K_data), NoTok)>>,
     <<Entry(0, Plain(K_data), Plain(<<"5">>))>>,
     <<Entry(0, Plain(K_data), Plain(A_dom_svc))>>,
     <<Entry(0, Plain(K_data), Tok("empty_map", <<>>))>>,
     <<Entry(0, Plain(K_data), Tok("empty_seq", <<>>))>>,
     <<Entry(0, Plain(K_data), NoTok), Item(0, Plain(<<"1">>))>>}
    \cup {<<Entry(0, Plain(K_data), NoTok)>> \o n : n \in NestedGroups}

\* texts that are no mapping, or no document at all
SpecialTexts ==
    {<<>>,
     <<BlankLine(0)>>,
     <<BlankLine(2), BlankLine(0)>>,
     <<CommentLine>>,
     <<BlankLine(0), CommentLine>>,
     <<ScalarLine(0, Plain(T_null))>>,
     <<ScalarLine(0, Plain(<<"~">>))>>,
     <<ScalarLine(0, Plain(A_dom_svc))>>,
     <<ScalarLine(0, Plain(<<"5">>))>>,
     <<ScalarLine(0, Tok("empty_seq", <<>>))>>,
     <<Item(0, Plain(<<"1">>)), Item(0, Plain(<<"2">>))>>,
     <<Entry(0, Plain(<<"a">>), Tok("flow_open", <<>>))>>,
     <<Entry(0, Plain(K_action), Plain(A_dom_svc)), Entry(0, Plain(K_data), Tok("flow_open", <<>>))>>,
     <<Entry(0, Plain(K_level), Plain(T_true)), Item(0, Plain(<<"1">>))>>,
     <<Entry(0, Plain(K_level), Plain(T_true)), Entry(1, Plain(K_x), Plain(<<"1">>))>>,
     <<Entry(0, Plain(K_data), NoTok), Entry(2, Plain(K_x), Plain(<<"1">>)),
       Entry(1, Plain(K_level), Plain(T_true))>>}

\* a pasted document, with the data section after or before the action
TypedTexts ==
    {a \o s \o e \o d : a \in ActionGroups, s \in ServiceGroups, e \in ExtraGroups,
                         d \in DataGroups}
    \cup {d \o s \o a : a \in ActionGroups, s \in ServiceGroups, d \in DataGroups}
    \cup {<<BlankLine(0)>> \o e \o <<CommentLine>> : e \in ExtraGroups}
    \cup SpecialTexts

(***************************************************************************)
(* Inputs of dict_to_yaml: argument mappings                               *)
(***************************************************************************)
MaxKeys == 2    \* an argument mapping has at most MaxKeys keys

ArgKeys == {K_level, K_x, K_0, K_entry_id, K_action, K_data}

ArgValues ==
    {PyNone, PyBool(TRUE), PyInt(5), PyInt(-12), PyStr(A_dom_svc), PyStr(T_true),
     PyStr(<<"5">>), PyStr(<<>>), PyStr(<<"a", ":", " ", "b">>),
     PyList(<<>>), PyDict(EmptyMap),
     PyList(<<PyInt(1), PyStr(T_no), PyNone>>),
     PyDict((K_entry_id :> PyStr(V_id)) @@ (K_x :> PyList(<<PyStr(<<"~">>)>>)))}

ArgDicts ==
    {PyDict(f) : f \in UNION {[ks -> ArgValues] :
                               ks \in {S \in SUBSET ArgKeys : Cardinality(S) <= MaxKeys}}}

InitYaml ==
    /\ flow_step = "none" /\ user_input = PyNone /\ services = {} /\ entry = PyNone
    /\ errors = {} /\ domain = PyNone /\ service_name = PyNone
    /\ action_selector_data = PyNone /\ clean_yaml = PyNone
    /\ has_service_log = <<>> /\ async_call_log = <<>> /\ call_outcome = "none"
    /\ flow_result = NoResult /\ fpc = "idle"
    /\ value = PyNone /\ suggestions = NoSuggestions /\ cpc = "idle"
    /\ data = PyNone /\ path_arg = PyNone /\ path = <<>> /\ pos = 0
    /\ current = PyNone /\ epc = "idle" /\ ret = PyNone
    /\ action_data = PyNone /\ sel_ret = PyNone /\ spc = "idle"
    /\ parsed = NotParsed
    /\ \/ /\ ypc = "typed" /\ origin = "typed"
          /\ yaml_string \in TypedTexts
          /\ arg_data = PyNone
       \/ /\ ypc = "dict" /\ origin = "none"
          /\ yaml_string = <<>>
          /\ arg_data \in ArgDicts

(***************************************************************************)
(* Inputs of detect_value_type_and_suggestions: sample values              *)
(***************************************************************************)
MaxTail == 2    \* at most MaxTail characters follow a timestamp text

Stamp ==
    <<"2", "0", "2", "4", "-", "0", "1", "-", "1", "5", "T",
      "1", "0", ":", "3", "0", ":", "0", "0">>

\* characters put in the place of one character of the timestamp text
Substitutes == {"7", "-", ":", "T", " ", "t", "x", "."}

Tails == TextsOver({"+", "Z", "."}, MaxTail)

SampleTexts ==
    {[Stamp EXCEPT ![i] = c] : i \in 1..Len(Stamp), c \in Substitutes}
    \cup {SubSeq(Stamp, 1, n) : n \in 0..Len(Stamp)}
    \cup {Stamp \o t : t \in Tails}
    \cup {[Stamp EXCEPT ![11] = " "] \o t : t \in Tails}
    \cup {<<" ">> \o Stamp, <<"x">> \o Stamp, T_true, <<"5">>, <<"1", ".", "5">>}

SampleValues ==
    {PyNone, PyBool(TRUE), PyBool(FALSE), PyInt(0), PyInt(1), PyInt(-12), PyInt(2024),
     PyFloat(<<"1", ".", "5">>), PyFloat(<<"0", ".", "0">>), PyFloat(<<"n", "a", "n">>),
     PyList(<<>>), PyList(<<PyStr(Stamp)>>), PyList(<<PyBool(TRUE)>>),
     PyDict(EmptyMap), PyDict(K_x :> PyInt(1)), Inner, List3}
    \cup {PyStr(t) : t \in SampleTexts}

InitClassify ==
    /\ flow_step = "none" /\ user_input = PyNone /\ services = {} /\ entry = PyNone
    /\ errors = {} /\ domain = PyNone /\ service_name = PyNone
    /\ action_selector_data = PyNone /\ clean_yaml = PyNone
    /\ has_service_log = <<>> /\ async_call_log = <<>> /\ call_outcome = "none"
    /\ flow_result = NoResult /\ fpc = "idle"
    /\ data = PyNone /\ path_arg = PyNone /\ path = <<>> /\ pos = 0
    /\ current = PyNone /\ epc = "idle" /\ ret = PyNone
    /\ action_data = PyNone /\ sel_ret = PyNone /\ spc = "idle"
    /\ arg_data = PyNone /\ yaml_string = <<>> /\ origin = "none"
    /\ parsed = NotParsed /\ ypc = "idle"
    /\ value \in SampleValues /\ suggestions = NoSuggestions /\ cpc = "call"
(***************************************************************************)
(* Inputs of the config flow: submissions, registered services, the entry  *)
(***************************************************************************)
A_nodot == <<"d">>
A_noname == <<"d", ".">>
A_nodomain == <<".", "s">>

FlowActionGroups ==
    ActionGroups
    \cup {<<Entry(0, Plain(K_action), Plain(a))>> : a \in {A_other, A_nodot, A_noname, A_nodomain}}
    \cup {<<Entry(0, Plain(K_service), Plain(A_other))>>}

FlowDataGroups ==
    {<<>>,
     <<Entry(0, Plain(K_data), Plain(<<"5">>))>>,
     <<Entry(0, Plain(K_data), NoTok), Entry(1, Plain(K_level), Plain(T_true))>>,
     <<Entry(0, Plain(K_data), NoTok), Entry(1, Plain(K_entry_id), Plain(V_id)),
       Entry(1, Plain(K_x), Single(T_true))>>}

\* the text of the YAML field
FlowTexts ==
    {a \o d : a \in FlowActionGroups, d \in FlowDataGroups}
    \cup {<<BlankLine(0)>>,
          <<Entry(0, Plain(K_level), Plain(T_true))>>,
          <<Entry(0, Plain(K_entry_id), Plain(V_id)), Entry(0, Plain(K_x), Plain(<<"1">>))>>,
          <<ScalarLine(0, Plain(A_dom_svc))>>,
          <<Item(0, Plain(<<"1">>)), Item(0, Plain(<<"2">>))>>,
          <<Entry(0, Plain(K_action), Plain(A_dom_svc)),
            Entry(0, Plain(K_data), Tok("flow_open", <<>>))>>}

\* the value of the action selector (dropdown)
FlowSelectors ==
    {PyNone, PyDict(EmptyMap)}
    \cup {PyDict(K_action :> PyStr(a)) : a \in {A_dom_svc, A_other, A_nodot, A_nodomain}}

FlowNames == {PyNone, PyStr(<<"n">>)}

Submissions ==
    {UserInput(n, sel, text) : n \in FlowNames, sel \in FlowSelectors, text \in FlowTexts}

ServiceRegistries ==
    {{}, {<<<<"d">>, <<"s">>>>}, {<<<<"e">>, <<"t">>>>},
     {<<<<"d">>, <<"s">>>>, <<<<"e">>, <<"t">>>>}}

\* the entry a reconfigure step starts from
OldEntry == UserInput(PyStr(<<"o">>), PyDict(K_action :> PyStr(A_dom_svc)), <<>>)

InitFlow ==
    /\ data = PyNone /\ path_arg = PyNone /\ path = <<>> /\ pos = 0
    /\ current = PyNone /\ epc = "idle" /\ ret = PyNone
    /\ action_data = PyNone /\ sel_ret = PyNone /\ spc = "idle"
    /\ arg_data = PyNone /\ yaml_string = <<>> /\ origin = "none"
    /\ parsed = NotParsed /\ ypc = "idle"
    /\ value = PyNone /\ suggestions = NoSuggestions /\ cpc = "idle"
    /\ flow_step \in {"user", "reconfigure"}
    /\ user_input \in {PyNone} \cup Submissions
    /\ services \in ServiceRegistries
    /\ entry = (IF flow_step = "user" THEN PyNone ELSE OldEntry)
    /\ errors = {} /\ domain = PyNone /\ service_name = PyNone
    /\ action_selector_data = PyNone /\ clean_yaml = PyNone
    /\ has_service_log = <<>> /\ async_call_log = <<>> /\ call_outcome = "none"
    /\ flow_result = NoResult /\ fpc = "call"

SpecPath == InitPath /\ [][NextPath]_vars

SpecFlow == InitFlow /\ [][NextFlow]_vars

SpecClassify == InitClassify /\ [][NextClassify]_vars

SpecSel == InitSel /\ [][NextSel]_vars

SpecYaml == InitYaml /\ [][NextYaml]_vars

\* the three components together
Init == InitPath \/ InitSel \/ InitYaml \/ InitClassify \/ InitFlow

Next == NextPath \/ NextSel \/ NextYaml \/ NextClassify \/ NextFlow

Spec == Init /\ [][Next]_vars


(***************************************************************************)
(* Properties of extract_data_at_path                                      *)
(***************************************************************************)
\* the text t stands in p at 0-based position i
PrefixAt(p, i, t) ==
    /\ i + Len(t) <= Len(p)
    /\ \A j \in 1..Len(t) : p[i + j] = t[j]

\* the bare token at position i of p is exactly t
TokenIs(p, i, t) ==
    /\ PrefixAt(p, i, t)
    /\ i + Len(t) = Len(p) \/ p[i + Len(t) + 1] \in {".", "[", "]"}

OnlyWhitespace(s) == \A i \in 1..Len(s) : s[i] \in Whitespace

\* the evaluation ends now with NotFound
EndsNotFound == epc' = "done" /\ ret' = PyNone

\* the step moves on to value v at position p (NotFound when v is null)
MovesTo(v, p) ==
    IF v = PyNone THEN EndsNotFound
    ELSE epc' = "loop" /\ current' = v /\ pos' = p

\* C7 (identity): with an absent, empty or whitespace-only path the value
\* returned is the root itself, whatever the root is.
C7_Identity ==
    (epc = "done" /\ (path_arg = PyNone \/ OnlyWhitespace(path_arg.val))) => ret = data

C7_Witness ==
    /\ epc = "done" /\ data = Outer /\ path_arg = PyStr(<<" ", " ">>) /\ ret = Outer

\* C8 (quoted key is never an index): a bracket step ["k"] or ['k'] looks k
\* up as a mapping key, whole, also when k looks numeric or holds dots; on
\* a value that is no mapping, or a mapping without k, the result is
\* NotFound.  An unquoted bracket integer on a mapping is NotFound even
\* when the mapping has that integer's text as a key.
C8_QuotedKeyNeverIndex ==
    [][ /\ \A k \in KeyTexts \cup {<<>>} : \A q \in {"\"", "'"} :
            (epc = "loop" /\ PrefixAt(path, pos, <<"[", q>> \o k \o <<q, "]">>))
            => IF current.kind = "dict" /\ k \in DOMAIN current.val
               THEN MovesTo(current.val[k], pos + Len(k) + 4)
               ELSE EndsNotFound
        /\ \A i \in IndexRange :
            (epc = "loop" /\ PrefixAt(path, pos, InBrackets(IntText(i)))
               /\ current.kind = "dict")
            => EndsNotFound ]_vars

C8_Witness ==
    /\ epc = "done" /\ data = Outer
    /\ path_arg = PyStr(InBrackets(SQuoted(<<"a", ".", "b">>)) \o InBrackets(DQuoted(<<"0">>)))
    /\ ret = PyStr(<<"x">>)

\* C9 (sequence indexing bounds): on a sequence s of length n an integer
\* index i, written [i] or as a bare token, gives s[i] for 0 <= i < n,
\* s[n+i] for -n <= i < 0, and NotFound for every other i.
C9_Element(s, i) ==
    LET n == Len(s)
    IN IF 0 <= i /\ i < n THEN [found |-> TRUE, elem |-> s[i + 1]]
       ELSE IF 0 - n <= i /\ i < 0 THEN [found |-> TRUE, elem |-> s[n + i + 1]]
       ELSE [found |-> FALSE, elem |-> PyNone]

C9_IndexBounds ==
    [][ \A i \in IndexRange :
          /\ (epc = "loop" /\ current.kind = "list"
                /\ PrefixAt(path, pos, InBrackets(IntText(i))))
             => IF C9_Element(current.val, i).found
                THEN MovesTo(C9_Element(current.val, i).elem, pos + Len(IntText(i)) + 2)
                ELSE EndsNotFound
          /\ (epc = "loop" /\ current.kind = "list" /\ TokenIs(path, pos, IntText(i)))
             => IF C9_Element(current.val, i).found
                THEN MovesTo(C9_Element(current.val, i).elem, pos + Len(IntText(i)))
                ELSE EndsNotFound ]_vars

C9_Witness ==
    /\ epc = "done" /\ data = List3
    /\ path_arg = PyStr(InBrackets(IntText(-3)))
    /\ ret = PyInt(10)

\* C10 (null short-circuit): a step that produces null ends the evaluation
\* at once with NotFound; so a path to an explicit null leaf, and any path
\* that goes on through it, give NotFound, as an absent key does.
C10_Rest == {<<>>} \cup {s \in Segments : s[1] \in {".", "["}}

C10_NullShortCircuit ==
    /\ [][ ((extract_data_at_path_bracket \/ extract_data_at_path_token) /\ current' = PyNone) => EndsNotFound ]_vars
    /\ [](\A k \in BareKeys : \A rest \in C10_Rest :
            (/\ epc = "done" /\ data.kind = "dict"
             /\ DictGet(data, k) = PyNone
             /\ path_arg \in {PyStr(k \o rest), PyStr(InBrackets(DQuoted(k)) \o rest)})
            => ret = PyNone)

C10_Witness ==
    /\ epc = "done" /\ data = Outer /\ path_arg = PyStr(<<"a", ".", "b">>)
    /\ current = PyNone /\ pos = 1 /\ ret = PyNone

\* the n characters of p from 0-based position i on are one whole bare token
C11_TokenOfLen(p, i, n) ==
    /\ n >= 1 /\ i + n <= Len(p)
    /\ \A j \in 1..n : p[i + j] \notin {".", "[", "]"}
    /\ i + n = Len(p) \/ p[i + n + 1] \in {".", "[", "]"}

\* the text has a character that no integer literal has
C11_NonNumeric(t) == \E j \in 1..Len(t) : ~IsDigit(t[j]) /\ t[j] \notin {"-", "+", "_", " "}

\* C11 (bare-token resolution): what a bare token does depends only on the
\* kind of the current value.  Against a sequence an integer token is an
\* index and a non-numeric token gives NotFound; against a mapping the token
\* is a text key, also when it looks numeric, and an absent key gives
\* NotFound; against any other value the result is NotFound.
C11_BareTokenByKind ==
    [][ \A n \in 1..(Len(path) - pos) :
          (epc = "loop" /\ C11_TokenOfLen(path, pos, n))
          => LET t == SubSeq(path, pos + 1, pos + n)
             IN CASE current.kind = "list" ->
                       /\ C11_NonNumeric(t) => EndsNotFound
                       /\ \A i \in IndexRange :
                             t = IntText(i)
                             => IF C9_Element(current.val, i).found
                                THEN MovesTo(C9_Element(current.val, i).elem, pos + n)
                                ELSE EndsNotFound
                  [] current.kind = "dict" ->
                       IF t \in DOMAIN current.val
                       THEN MovesTo(current.val[t], pos + n)
                       ELSE EndsNotFound
                  [] OTHER -> EndsNotFound ]_vars

C11_Witness ==
    /\ epc = "done" /\ data = Outer /\ path_arg = PyStr(<<"0">>)
    /\ pos = 1 /\ current = PyInt(7) /\ ret = PyInt(7)

\* the value itself and every value reachable inside it
RECURSIVE SubValues(_)
SubValues(v) ==
    {v} \cup
    CASE v.kind = "list" -> UNION {SubValues(v.val[i]) : i \in 1..Len(v.val)}
      [] v.kind = "dict" -> UNION {SubValues(v.val[k]) : k \in DOMAIN v.val}
      [] OTHER -> {}

\* the text has a "[" with no "]" after it
C12_UnmatchedBracket(p) ==
    \E i \in 1..Len(p) : p[i] = "[" /\ \A j \in (i + 1)..Len(p) : p[j] # "]"

\* every step of the loop moves forward in the path or ends the evaluation,
\* and the result is a value inside the root, or NotFound
C12_Total ==
    /\ [][ epc = "loop" => (epc' = "done" \/ (epc' = "loop" /\ pos' > pos /\ pos' <= Len(path))) ]_vars
    /\ [](epc = "done" => ret \in SubValues(data) \cup {PyNone})

\* C12 (totality): for every root and every path text the evaluation ends
\* and returns a value inside the root or NotFound, without raising; and a
\* path with a "[" that no later "]" closes always gives NotFound.
C12_TotalAndUnmatchedNotFound ==
    /\ C12_Total
    /\ []((epc = "done" /\ path_arg # PyNone /\ C12_UnmatchedBracket(path_arg.val))
            => ret = PyNone)

\* two quote characters of the same kind enclose the key
C15_QuotedPair(bc) ==
    /\ Len(bc) >= 2
    /\ bc[1] \in {"\"", "'"}
    /\ bc[Len(bc)] = bc[1]

\* C15 (unquoted bracket content): bracket content that is not wrapped in a
\* matching pair of quotes must be a signed integer and is then used only as
\* a sequence index; every other unquoted content (empty brackets, a lone
\* quote character, a quoted key cut short by "]") gives NotFound against
\* every current value.
C15_UnquotedBracket ==
    [][ \A e \in (pos + 1)..(Len(path) - 1) :
          (/\ epc = "loop" /\ path[pos + 1] = "[" /\ path[e + 1] = "]"
           /\ \A j \in (pos + 2)..e : path[j] # "]"
           /\ ~C15_QuotedPair(SubSeq(path, pos + 2, e)))
          => LET bc == SubSeq(path, pos + 2, e)
             IN /\ (bc = <<>> \/ C11_NonNumeric(bc)) => EndsNotFound
                /\ \A i \in IndexRange :
                      bc = IntText(i)
                      => IF current.kind = "list" /\ C9_Element(current.val, i).found
                         THEN MovesTo(C9_Element(current.val, i).elem, e + 1)
                         ELSE EndsNotFound ]_vars

(***************************************************************************)
(* Properties of detect_value_type_and_suggestions                         *)
(***************************************************************************)
\* the shape a timestamp text begins with: d a digit, s "T" or a space
C13_Shape ==
    <<"d", "d", "d", "d", "-", "d", "d", "-", "d", "d", "s",
      "d", "d", ":", "d", "d", ":", "d", "d">>

C13_BeginsAsTimestamp(t) ==
    /\ Len(t) >= Len(C13_Shape)
    /\ \A i \in 1..Len(C13_Shape) :
          CASE C13_Shape[i] = "d" -> IsDigit(t[i])
            [] C13_Shape[i] = "s" -> t[i] \in {"T", " "}
            [] OTHER -> t[i] = C13_Shape[i]

\* the ordered rule list, first match wins
C13_Kind(v) ==
    CASE v.kind = "none" -> "string"
      [] v.kind = "bool" -> "boolean"
      [] v.kind \in {"int", "float"} -> "number"
      [] v.kind = "str" /\ C13_BeginsAsTimestamp(v.val) -> "timestamp"
      [] OTHER -> "string"

\* C13 (classifier): the result is that of the ordered rule list: null is
\* Text; a boolean is Boolean, never Number; an integer or float is Number;
\* a text that begins with dddd-dd-dd, "T" or space, dd:dd:dd is Timestamp
\* with device class "timestamp", whatever follows; every other text,
\* sequence or mapping is Text.  The unit hint is always empty, the device
\* class hint is empty in every case but Timestamp.
C13_OrderedRules ==
    cpc = "done"
    => /\ suggestions.value_type = C13_Kind(value)
       /\ suggestions.unit_of_measurement = ""
       /\ suggestions.device_class
            = (IF C13_Kind(value) = "timestamp" THEN "timestamp" ELSE "")
       /\ value.kind = "bool" => suggestions.value_type # "number"

C13_Witness ==
    /\ cpc = "done" /\ value = PyStr(Stamp \o <<"+", "Z">>)
    /\ suggestions = Suggestions("timestamp", "", "timestamp")

(***************************************************************************)
(* Properties of parse_service_yaml and dict_to_yaml                       *)
(***************************************************************************)
HasKey(d, k) == d.kind = "dict" /\ k \in DOMAIN d.val

\* the document the text deserializes to (null for no document)
DocOf(text) == yaml_safe_load(text).val

\* the values Python takes for false: null, false, 0 and the empty ones
C3_Empty(v) ==
    v \in {PyNone, PyBool(FALSE), PyInt(0), PyStr(<<>>), PyList(<<>>), PyDict(EmptyMap)}

\* C1 as stated (round trip under the data wrapper): for d without
\* entry_id, parsing "data:\n" + indented(dict_to_yaml(d)) gives no error
\* and a cleaned mapping equal to d.
C1_RoundTripUnderData ==
    (ypc = "parsed" /\ origin = "wrapped" /\ ~HasKey(arg_data, K_entry_id))
    => (parsed.error_key = PyNone /\ parsed.cleaned_data = arg_data)

\* C1 as amended: for d without entry_id, action and service, parsing
\* dict_to_yaml(d) itself gives no error, no action, no correlation key and
\* a cleaned mapping equal to d; under the data wrapper alone the text is
\* still in bare-data form, and the cleaned mapping is {data: d}
\* ({data: null} for the empty d).
C1_RoundTrip ==
    /\ (/\ ypc = "parsed" /\ origin = "dumped"
        /\ ~HasKey(arg_data, K_entry_id) /\ ~HasKey(arg_data, K_action)
        /\ ~HasKey(arg_data, K_service))
       => parsed = Returned(arg_data, PyNone, PyNone, PyNone)
    /\ (ypc = "parsed" /\ origin = "wrapped")
       => parsed = Returned(PyDict(K_data :> IF arg_data = PyDict(EmptyMap) THEN PyNone
                                               ELSE arg_data),
                            PyNone, PyNone, PyNone)

C1_Witness ==
    /\ ypc = "parsed" /\ origin = "dumped"
    /\ arg_data = PyDict((K_level :> PyStr(T_true))
                         @@ (K_x :> PyList(<<PyInt(1), PyStr(T_no), PyNone>>)))
    /\ parsed.cleaned_data = arg_data

\* the candidate argument data of a document that is a mapping: the data
\* entry in full-document form (empty when absent), the whole mapping in
\* bare-data form
C2_Candidate(doc) ==
    IF HasKey(doc, K_action) \/ HasKey(doc, K_service)
    THEN IF HasKey(doc, K_data) THEN doc.val[K_data] ELSE PyDict(EmptyMap)
    ELSE doc

\* C2 (the reserved key is stripped): whenever parse_service_yaml returns
\* no error, the argument mapping has no top-level entry_id, holds every
\* other entry of the candidate argument data, and the correlation key is
\* the value entry_id had there, or absent when it had none.
C2_ReservedKeyStripped ==
    (ypc = "parsed" /\ parsed.error_key = PyNone)
    => /\ parsed.cleaned_data.kind = "dict"
       /\ K_entry_id \notin DOMAIN parsed.cleaned_data.val
       /\ IF DocOf(yaml_string).kind # "dict"
          THEN parsed.entry_id = PyNone /\ parsed.cleaned_data = PyDict(EmptyMap)
          ELSE LET cand == C2_Candidate(DocOf(yaml_string))
               IN /\ parsed.entry_id = IF K_entry_id \in DOMAIN cand.val
                                        THEN cand.val[K_entry_id] ELSE PyNone
                  /\ DOMAIN parsed.cleaned_data.val = DOMAIN cand.val \ {K_entry_id}
                  /\ \A k \in DOMAIN parsed.cleaned_data.val :
                        parsed.cleaned_data.val[k] = cand.val[k]

C2_Witness ==
    /\ ypc = "parsed" /\ origin = "typed"
    /\ HasKey(DocOf(yaml_string), K_action)
    /\ HasKey(DocOf(yaml_string), K_data)
    /\ HasKey(DocOf(yaml_string).val[K_data], K_entry_id)
    /\ parsed.entry_id = PyStr(V_id)
    /\ parsed.cleaned_data = PyDict(K_level :> PyBool(TRUE))

\* C3 as stated: with both action and service at the top level, the action
\* returned is the value of action, whatever that value is.
C3_ActionAlwaysWins ==
    (/\ ypc = "parsed"
     /\ HasKey(DocOf(yaml_string), K_action) /\ HasKey(DocOf(yaml_string), K_service))
    => parsed.action = DocOf(yaml_string).val[K_action]

\* C3 as amended: with both keys at the top level, the action returned is
\* the value of action unless that value is null, false, 0 or empty; then
\* it is the value of service.
C3_ActionPreferred ==
    (/\ ypc = "parsed"
     /\ HasKey(DocOf(yaml_string), K_action) /\ HasKey(DocOf(yaml_string), K_service))
    => parsed.action = IF C3_Empty(DocOf(yaml_string).val[K_action])
                       THEN DocOf(yaml_string).val[K_service]
                       ELSE DocOf(yaml_string).val[K_action]

C3_Witness ==
    /\ ypc = "parsed"
    /\ HasKey(DocOf(yaml_string), K_action) /\ HasKey(DocOf(yaml_string), K_service)
    /\ DocOf(yaml_string).val[K_action] = PyStr(<<>>)
    /\ parsed.action = PyStr(A_other)

\* C4 (classification of failures): blank text and a null document give
\* the empty description without error; a text that does not deserialize
\* gives yaml_parse_error; a document that is no mapping, or whose data
\* entry (full-document form) is present and no mapping, gives
\* yaml_not_dict; everything else gives no error.  With an error the
\* argument mapping is absent.
C4_Expected(text) ==
    IF IsBlankText(text) THEN PyNone
    ELSE IF ~yaml_safe_load(text).ok THEN ErrorKey("yaml_parse_error")
    ELSE IF DocOf(text) = PyNone THEN PyNone
    ELSE IF DocOf(text).kind # "dict" THEN ErrorKey("yaml_not_dict")
    ELSE IF /\ HasKey(DocOf(text), K_action) \/ HasKey(DocOf(text), K_service)
            /\ HasKey(DocOf(text), K_data)
            /\ DocOf(text).val[K_data].kind # "dict"
    THEN ErrorKey("yaml_not_dict")
    ELSE PyNone

C5_TextResults ==
    ypc = "parsed"
    => /\ parsed.action.kind \in {"none", "str"}
       /\ parsed.entry_id.kind \in {"none", "str"}

\* C17 (normalization is idempotent on its own output): when the cleaned
\* mapping c of an accepted text is stored as dict_to_yaml(c) and that text
\* is parsed again, it is accepted and gives a mapping equal to c, no
\* action identifier and no correlation key.
C17_StoredTextReparses ==
    (ypc = "parsed" /\ origin = "stored")
    => parsed = Returned(arg_data, PyNone, PyNone, PyNone)

(***************************************************************************)
(* Properties of _extract_action_from_selector                             *)
(***************************************************************************)
C6_ActionText == action_data.val[K_action].val

C6_HasActionText == HasKey(action_data, K_action) /\ action_data.val[K_action].kind = "str"

\* the 1-based places of a where a dot stands with no dot before it
C6_FirstDots(a) == {i \in 1..Len(a) : a[i] = "." /\ \A j \in 1..(i - 1) : a[j] # "."}

C6_Pair(a, i) == PyTuple(<<PyStr(SubSeq(a, 1, i - 1)), PyStr(SubSeq(a, i + 1, Len(a)))>>)

\* C6 as stated: an identifier splits at its first dot; without a dot, or
\* with an empty side, the result is None.
C6_SplitOrNone ==
    (spc = "done" /\ C6_HasActionText)
    => LET a == C6_ActionText
           proper == {i \in C6_FirstDots(a) : 1 < i /\ i < Len(a)}
       IN IF proper # {} THEN \E i \in proper : sel_ret = C6_Pair(a, i)
          ELSE sel_ret = PyNone

\* C6 as amended: an identifier splits at its first dot only, so the name
\* may hold further dots; a side may come out empty (".name" gives
\* ("", "name"), "domain." gives ("domain", "")); only an identifier
\* without any dot (the empty one included) gives None; nothing is raised.
C6_SplitAtFirstDot ==
    (spc = "done" /\ C6_HasActionText)
    => LET a == C6_ActionText
       IN IF C6_FirstDots(a) # {} THEN \E i \in C6_FirstDots(a) : sel_ret = C6_Pair(a, i)
          ELSE sel_ret = PyNone

C6_Witness ==
    /\ spc = "done"
    /\ action_data = PyDict(K_action :> PyStr(<<".", "s", ".", "d">>))
    /\ sel_ret = PyTuple(<<PyStr(<<>>), PyStr(<<"s", ".", "d">>)>>)

(***************************************************************************)
(* Properties of the config flow                                           *)
(***************************************************************************)
\* what parse_service_yaml makes of the submitted YAML field
FlowParsed == parse_service_yaml(SubmittedYaml)

\* the step has answered a submission
FlowAnswered == fpc = "done" /\ user_input # PyNone

\* the entry as it was before the step
EntryBefore == IF flow_step = "user" THEN PyNone ELSE OldEntry

\* the awaited call returned (with or without response data)
CallReturned == call_outcome \in {"response", "no_response"}

\* C14 (service validation before accepting configuration): in both steps
\* an entry is created or updated only after, in that submission, the YAML
\* parsed without error, a non-empty domain and service name were
\* determined, has_service(domain, name) was true and the validating call
\* with return_response returned without raising; in every other case the
\* form is shown again with exactly one error key and no entry is created
\* or updated.
C14_ValidatedBeforeAccepted ==
    /\ [][ entry' # entry
           => /\ fpc = "awaiting" /\ fpc' = "done"
              /\ has_service_log # <<>> /\ async_call_log # <<>>
              /\ call_outcome' \in {"response", "no_response"} ]_vars
    /\ [](FlowAnswered
          => IF flow_result.kind \in {"create_entry", "update_entry"}
             THEN /\ flow_result.kind
                       = (IF flow_step = "user" THEN "create_entry" ELSE "update_entry")
                  /\ FlowParsed.error_key = PyNone
                  /\ domain.kind = "str" /\ domain.val # <<>>
                  /\ service_name.kind = "str" /\ service_name.val # <<>>
                  /\ has_service_log = <<<<domain, service_name>>>>
                  /\ <<domain.val, service_name.val>> \in services
                  /\ Len(async_call_log) = 1
                  /\ async_call_log[1].domain = domain
                  /\ async_call_log[1].service = service_name
                  /\ async_call_log[1].return_response
                  /\ CallReturned
                  /\ entry = flow_result.data
             ELSE /\ flow_result.kind = "form" /\ flow_result.step_id = flow_step
                  /\ Cardinality(flow_result.errors) = 1
                  /\ entry = EntryBefore)

\* a text of the form domain.service with both sides non-empty (the split
\* is made at the first dot)
C16_Usable(v) ==
    /\ v.kind = "str"
    /\ \E i \in 2..(Len(v.val) - 1) :
          v.val[i] = "." /\ \A j \in 1..(i - 1) : v.val[j] # "."

\* the (domain, service) pair of a usable identifier
C16_PairOf(v) ==
    LET i == CHOOSE k \in 1..Len(v.val) : v.val[k] = "." /\ \A j \in 1..(k - 1) : v.val[j] # "."
    IN <<PyStr(SubSeq(v.val, 1, i - 1)), PyStr(SubSeq(v.val, i + 1, Len(v.val)))>>

\* the dropdown holds a usable identifier
C16_DropdownUsable ==
    /\ SubmittedAction.kind = "dict"
    /\ K_action \in DOMAIN SubmittedAction.val
    /\ C16_Usable(SubmittedAction.val[K_action])

\* every has_service and async_call made, and the stored selector value,
\* are those of the identifier v
C16_OnlyUsed(v) ==
    /\ \A i \in 1..Len(has_service_log) : has_service_log[i] = C16_PairOf(v)
    /\ \A i \in 1..Len(async_call_log) :
          <<async_call_log[i].domain, async_call_log[i].service>> = C16_PairOf(v)
    /\ flow_result.kind \in {"create_entry", "update_entry"}
       => flow_result.data.service_action.val[K_action] = v

\* no has_service, no async_call and no entry
C16_NothingUsed ==
    /\ has_service_log = <<>> /\ async_call_log = <<>>
    /\ flow_result.kind \notin {"create_entry", "update_entry"}

\* the YAML action first, the dropdown only without a YAML action
C16_Priority ==
    IF Truthy(FlowParsed.action)
    THEN IF C16_Usable(FlowParsed.action)
         THEN /\ C16_OnlyUsed(FlowParsed.action)
              /\ flow_result.kind \in {"create_entry", "update_entry"}
                 => flow_result.data.service_action = PyDict(K_action :> FlowParsed.action)
         ELSE C16_NothingUsed
    ELSE IF C16_DropdownUsable
         THEN C16_OnlyUsed(SubmittedAction.val[K_action])
         ELSE C16_NothingUsed

====
